---- MODULE Spec2Model ----
(***************************************************************************)
(* A model of packages/core/src/utils/ConfigurationLoader.ts: the          *)
(* resolution of the effective MikroORM configuration (path discovery,     *)
(* environment decoding, selection of one config out of the config file's  *)
(* export, the merge of the sources) and the package version guard.        *)
(*                                                                         *)
(* JavaScript values are records tagged by "t".  A JavaScript string is a  *)
(* sequence of tokens (each token a piece of the string); the strings the  *)
(* model draws are tokenised so that every prefix, suffix or character the *)
(* code inspects is a whole number of tokens.                              *)
(***************************************************************************)
EXTENDS Integers, Sequences, FiniteSets, TLC

VARIABLES
  processEnv,   \* process.env: variable name -> string
  manifest,     \* the package.json found by getPackageConfig
  fs,           \* the paths that exist on the filesystem
  runtime,      \* bun, the detected TS loader, the --config argument, the core version
  installed,    \* package name -> version in its package.json (or unreadable)
  pc,           \* the position of the running getConfiguration call
  form,         \* the call form of getConfiguration
  contextName,  \* its contextName
  paths,        \* the candidate paths it probes
  options,      \* the options object it merges
  callerOptions,\* the options the caller supplied
  env,          \* the decoded environment options
  idx,          \* the loop index of getConfigFile, then of the factory loop
  foundPath,    \* result[0] of getConfigFile
  tmp,          \* the export being reduced to one config object
  rawExport,    \* the value the loader's import returned, as it is now
  imported,     \* the value the loader's import returned, as it was returned
  result,       \* the mapping handed to the Configuration constructor
  error,        \* the error the call failed with
  existsLog,    \* the paths tested for existence, in order
  importLog,    \* the paths given to the loader's import, in order
  callLog,      \* the factory invocations: <<index, argument, returned value>>
  calls         \* the returned values of the synchronous operations called

worldVars == <<processEnv, manifest, fs, runtime, installed>>
callVars == <<pc, form, contextName, paths, options, callerOptions, env, idx,
              foundPath, tmp, rawExport, imported, result, error>>
logVars == <<existsLog, importLog, callLog>>
vars == <<worldVars, callVars, logVars, calls>>

-----------------------------------------------------------------------------
(* Bounds of the model. *)

\* the longest array a config file exports
MaxEntries == 2
\* the most calls of a synchronous operation in one behaviour
MaxCalls == 2

-----------------------------------------------------------------------------
(* JavaScript values. *)

Undefined == [t |-> "undefined"]
JNull == [t |-> "null"]
JNaN == [t |-> "nan"]
JStr(s) == [t |-> "string", v |-> s]
JBool(b) == [t |-> "boolean", v |-> b]
JNum(n) == [t |-> "number", v |-> n]
JArr(s) == [t |-> "array", v |-> s]
JObj(m) == [t |-> "object", v |-> m]
JFn(name) == [t |-> "function", v |-> name]
JClass(name) == [t |-> "class", v |-> name]

EmptyMap == [k \in {} |-> Undefined]
Put(m, k, x) == [y \in DOMAIN m \cup {k} |-> IF y = k THEN x ELSE m[y]]
Delete(m, k) == [y \in DOMAIN m \ {k} |-> m[y]]

\* typeof x === 'object' && x !== null
IsObjectLike(x) == x.t \in {"object", "array"}
IsArray(x) == x.t = "array"
IsFunction(x) == x.t = "function"
\* 'contextName' in cfg, for an object or an array
HasContextName(x) == x.t = "object" /\ "contextName" \in DOMAIN x.v

-----------------------------------------------------------------------------
(* Strings. *)

Uppers == <<"A", "B", "C", "D", "E", "F", "G", "H", "I", "J", "K", "L", "M",
            "N", "O", "P", "Q", "R", "S", "T", "U", "V", "W", "X", "Y", "Z">>
Lowers == <<"a", "b", "c", "d", "e", "f", "g", "h", "i", "j", "k", "l", "m",
            "n", "o", "p", "q", "r", "s", "t", "u", "v", "w", "x", "y", "z">>

ToLowerChar(c) ==
  IF \E i \in DOMAIN Uppers : Uppers[i] = c
  THEN Lowers[CHOOSE i \in DOMAIN Uppers : Uppers[i] = c]
  ELSE c

\* String.prototype.toLowerCase
ToLowerCase(s) == [i \in DOMAIN s |-> ToLowerChar(s[i])]

\* String.prototype.endsWith / startsWith
EndsWith(s, suffix) ==
  /\ Len(s) >= Len(suffix)
  /\ SubSeq(s, Len(s) - Len(suffix) + 1, Len(s)) = suffix
StartsWith(s, prefix) ==
  /\ Len(s) >= Len(prefix)
  /\ SubSeq(s, 1, Len(prefix)) = prefix
\* String.prototype.substring(n)
Substring(s, n) == SubSeq(s, n + 1, Len(s))

\* String.prototype.trim, of the space character
RECURSIVE TrimLeft(_)
TrimLeft(s) == IF s /= <<>> /\ Head(s) = " " THEN TrimLeft(Tail(s)) ELSE s
RECURSIVE TrimRight(_)
TrimRight(s) ==
  IF s /= <<>> /\ s[Len(s)] = " " THEN TrimRight(SubSeq(s, 1, Len(s) - 1)) ELSE s
Trim(s) == TrimRight(TrimLeft(s))

\* String.prototype.split(','): the pieces between the commas
RECURSIVE SplitComma(_, _)
SplitComma(s, piece) ==
  IF s = <<>> THEN <<piece>>
  ELSE IF Head(s) = "," THEN <<piece>> \o SplitComma(Tail(s), <<>>)
  ELSE SplitComma(Tail(s), Append(piece, Head(s)))

Digits == <<"0", "1", "2", "3", "4", "5", "6", "7", "8", "9">>
IsDigit(c) == \E i \in DOMAIN Digits : Digits[i] = c
DigitValue(c) == (CHOOSE i \in DOMAIN Digits : Digits[i] = c) - 1
RECURSIVE DecimalValue(_, _)
DecimalValue(s, acc) ==
  IF s = <<>> THEN acc ELSE DecimalValue(Tail(s), 10 * acc + DigitValue(Head(s)))

-----------------------------------------------------------------------------
(* toBoolean, loaderOptionFromEnv and the mappers of loadEnvironmentVars. *)

falsyStrings == {<<"f", "a", "l", "s", "e">>, <<"f">>, <<"0">>, <<"n", "o">>, <<"n">>, <<>>}

truthyStrings == {<<"t", "r", "u", "e">>, <<"t">>, <<"1">>, <<"y", "e", "s">>, <<"y">>}

toBoolean(value) == value \in truthyStrings

loaderOptionFromEnv(value) ==
  LET maybeBoolean == ToLowerCase(value)
  IN IF maybeBoolean \in falsyStrings THEN JBool(FALSE)
     ELSE IF maybeBoolean \in truthyStrings THEN JStr(<<"a", "u", "t", "o">>)
     ELSE JStr(value)

\* const array = (v: string) => v.split(',').map(vv => vv.trim())
array(v) ==
  LET pieces == SplitComma(v, <<>>)
  IN JArr([i \in DOMAIN pieces |-> JStr(Trim(pieces[i]))])

\* const num = (v: string) => +v, for strings of digits and spaces
num(v) ==
  LET s == Trim(v)
  IN IF \A i \in DOMAIN s : IsDigit(s[i]) THEN JNum(DecimalValue(s, 0)) ELSE JNaN

PlatformNames == {<<"mongo">>, <<"mysql">>, <<"mssql">>, <<"mariadb">>, <<"postgresql">>,
                  <<"sqlite">>, <<"better-sqlite">>, <<"libsql">>}
PLATFORMS(v) ==
  CASE v = <<"mongo">> -> [className |-> "MongoDriver", module |-> "@mikro-orm/mongodb"]
    [] v = <<"mysql">> -> [className |-> "MySqlDriver", module |-> "@mikro-orm/mysql"]
    [] v = <<"mssql">> -> [className |-> "MsSqlDriver", module |-> "@mikro-orm/mssql"]
    [] v = <<"mariadb">> -> [className |-> "MariaDbDriver", module |-> "@mikro-orm/mariadb"]
    [] v = <<"postgresql">> -> [className |-> "PostgreSqlDriver", module |-> "@mikro-orm/postgresql"]
    [] v = <<"sqlite">> -> [className |-> "SqliteDriver", module |-> "@mikro-orm/sqlite"]
    [] v = <<"better-sqlite">> -> [className |-> "BetterSqliteDriver", module |-> "@mikro-orm/better-sqlite"]
    [] v = <<"libsql">> -> [className |-> "LibSqlDriver", module |-> "@mikro-orm/libsql"]

\* const driver = (v) => Utils.requireFrom(PLATFORMS[v].module)[PLATFORMS[v].className]
driver(v) == JClass(PLATFORMS(v).className)
\* PLATFORMS[v] is undefined: reading its module throws
driverThrows(v) == v \notin PlatformNames

Mapper(m, v) ==
  CASE m = "id" -> JStr(v)
    [] m = "driver" -> driver(v)
    [] m = "array" -> array(v)
    [] m = "num" -> num(v)
    [] m = "toBoolean" -> JBool(toBoolean(v))

\* the name of an environment variable: 'MIKRO_ORM_' + suffix, in two tokens
EnvPrefix == <<"MIKRO_ORM_">>
EnvName(suffix) == EnvPrefix \o <<suffix>>

\* E("HOST", ...) stands for read(..., 'MIKRO_ORM_HOST', ...)
E(suffix, ns, key, mapper) == [envKey |-> EnvName(suffix), ns |-> ns, key |-> key, mapper |-> mapper]

\* the read(...) lines of loadEnvironmentVars, in order
EnvTable == <<
  E("BASE_DIR", "", "baseDir", "id"),
  E("TYPE", "", "driver", "driver"),
  E("ENTITIES", "", "entities", "array"),
  E("ENTITIES_TS", "", "entitiesTs", "array"),
  E("CLIENT_URL", "", "clientUrl", "id"),
  E("HOST", "", "host", "id"),
  E("PORT", "", "port", "num"),
  E("USER", "", "user", "id"),
  E("PASSWORD", "", "password", "id"),
  E("DB_NAME", "", "dbName", "id"),
  E("SCHEMA", "", "schema", "id"),
  E("LOAD_STRATEGY", "", "loadStrategy", "id"),
  E("BATCH_SIZE", "", "batchSize", "num"),
  E("USE_BATCH_INSERTS", "", "useBatchInserts", "toBoolean"),
  E("USE_BATCH_UPDATES", "", "useBatchUpdates", "toBoolean"),
  E("STRICT", "", "strict", "toBoolean"),
  E("VALIDATE", "", "validate", "toBoolean"),
  E("ALLOW_GLOBAL_CONTEXT", "", "allowGlobalContext", "toBoolean"),
  E("AUTO_JOIN_ONE_TO_ONE_OWNER", "", "autoJoinOneToOneOwner", "toBoolean"),
  E("POPULATE_AFTER_FLUSH", "", "populateAfterFlush", "toBoolean"),
  E("FORCE_ENTITY_CONSTRUCTOR", "", "forceEntityConstructor", "toBoolean"),
  E("FORCE_UNDEFINED", "", "forceUndefined", "toBoolean"),
  E("FORCE_UTC_TIMEZONE", "", "forceUtcTimezone", "toBoolean"),
  E("TIMEZONE", "", "timezone", "id"),
  E("ENSURE_INDEXES", "", "ensureIndexes", "toBoolean"),
  E("IMPLICIT_TRANSACTIONS", "", "implicitTransactions", "toBoolean"),
  E("DEBUG", "", "debug", "toBoolean"),
  E("COLORS", "", "colors", "toBoolean"),
  E("DISCOVERY_WARN_WHEN_NO_ENTITIES", "discovery", "warnWhenNoEntities", "toBoolean"),
  E("DISCOVERY_REQUIRE_ENTITIES_ARRAY", "discovery", "requireEntitiesArray", "toBoolean"),
  E("DISCOVERY_ALWAYS_ANALYSE_PROPERTIES", "discovery", "alwaysAnalyseProperties", "toBoolean"),
  E("DISCOVERY_DISABLE_DYNAMIC_FILE_ACCESS", "discovery", "disableDynamicFileAccess", "toBoolean"),
  E("MIGRATIONS_TABLE_NAME", "migrations", "tableName", "id"),
  E("MIGRATIONS_PATH", "migrations", "path", "id"),
  E("MIGRATIONS_PATH_TS", "migrations", "pathTs", "id"),
  E("MIGRATIONS_GLOB", "migrations", "glob", "id"),
  E("MIGRATIONS_TRANSACTIONAL", "migrations", "transactional", "toBoolean"),
  E("MIGRATIONS_DISABLE_FOREIGN_KEYS", "migrations", "disableForeignKeys", "toBoolean"),
  E("MIGRATIONS_ALL_OR_NOTHING", "migrations", "allOrNothing", "toBoolean"),
  E("MIGRATIONS_DROP_TABLES", "migrations", "dropTables", "toBoolean"),
  E("MIGRATIONS_SAFE", "migrations", "safe", "toBoolean"),
  E("MIGRATIONS_SILENT", "migrations", "silent", "toBoolean"),
  E("MIGRATIONS_EMIT", "migrations", "emit", "id"),
  E("MIGRATIONS_SNAPSHOT", "migrations", "snapshot", "toBoolean"),
  E("MIGRATIONS_SNAPSHOT_NAME", "migrations", "snapshotName", "id"),
  E("SCHEMA_GENERATOR_DISABLE_FOREIGN_KEYS", "schemaGenerator", "disableForeignKeys", "toBoolean"),
  E("SCHEMA_GENERATOR_CREATE_FOREIGN_KEY_CONSTRAINTS", "schemaGenerator", "createForeignKeyConstraints", "toBoolean"),
  E("SEEDER_PATH", "seeder", "path", "id"),
  E("SEEDER_PATH_TS", "seeder", "pathTs", "id"),
  E("SEEDER_GLOB", "seeder", "glob", "id"),
  E("SEEDER_EMIT", "seeder", "emit", "id"),
  E("SEEDER_DEFAULT_SEEDER", "seeder", "defaultSeeder", "id") >>

EnvEntries == {EnvTable[i] : i \in DOMAIN EnvTable}
SubNamespaces == <<"discovery", "migrations", "schemaGenerator", "seeder">>

\* Utils.hasObjectKeys
hasObjectKeys(m) == DOMAIN m /= {}

\* the read(o, envKey, key, mapper) lines of one namespace, applied to an empty o
readAll(penv, ns) ==
  LET present == {e \in EnvEntries : e.ns = ns /\ e.envKey \in DOMAIN penv}
  IN [k \in {e.key : e \in present} |->
        LET e == CHOOSE e \in present : e.key = k
        IN Mapper(e.mapper, penv[e.envKey])]

\* const cleanup = (o, k) => Utils.hasObjectKeys(o[k]) ? {} : delete o[k]
cleanup(o, k) == IF hasObjectKeys(o[k].v) THEN o ELSE Delete(o, k)

RECURSIVE readNamespaces(_, _, _)
readNamespaces(ret, penv, i) ==
  IF i > Len(SubNamespaces) THEN ret
  ELSE LET ns == SubNamespaces[i]
       IN readNamespaces(cleanup(Put(ret, ns, JObj(readAll(penv, ns))), ns), penv, i + 1)

\* loadEnvironmentVars throws: the driver lookup of MIKRO_ORM_TYPE fails
loadEnvironmentVarsThrows(penv) ==
  EnvName("TYPE") \in DOMAIN penv /\ driverThrows(penv[EnvName("TYPE")])
loadEnvironmentVars(penv) == readNamespaces(readAll(penv, ""), penv, 1)

-----------------------------------------------------------------------------
(* getPackageConfig, getSettings, isESM, getConfigPaths. *)

\* JavaScript truthiness of the values the code tests
Truthy(x) ==
  CASE x.t = "undefined" -> FALSE
    [] x.t = "null" -> FALSE
    [] x.t = "boolean" -> x.v
    [] x.t = "string" -> x.v /= <<>>
    [] OTHER -> TRUE

\* a ?? b
Coalesce(a, b) == IF a.t \in {"undefined", "null"} THEN b ELSE a

\* process.env[name]
EnvGet(penv, name) == IF name \in DOMAIN penv THEN JStr(penv[name]) ELSE Undefined

\* the 'mikro-orm' settings of a package.json that declares none
NoSettings == [tsConfigPath |-> Undefined, verbose |-> Undefined, useTsNode |-> Undefined,
               alwaysAllowTs |-> Undefined, loader |-> Undefined, configPaths |-> Undefined]
\* getPackageConfig() when no package.json is found up to the root folder
NoManifest == [type |-> Undefined, settings |-> NoSettings,
               dependencies |-> <<>>, devDependencies |-> <<>>]

TsExtension == <<".ts">>
JsExtension == <<".js">>

getSettings(penv, pkg) ==
  LET settings == pkg.settings
      fromEnv(name, current, mapper(_)) ==
        IF EnvGet(penv, name).t /= "undefined" THEN mapper(penv[name]) ELSE current
      bool(v) == JBool(toBoolean(v))
      s1 == [settings EXCEPT
               !.tsConfigPath = Coalesce(EnvGet(penv, EnvName("CLI_TS_CONFIG_PATH")), settings.tsConfigPath),
               !.verbose = fromEnv(EnvName("CLI_VERBOSE"), settings.verbose, bool),
               !.useTsNode = fromEnv(EnvName("CLI_USE_TS_NODE"), settings.useTsNode, bool),
               !.alwaysAllowTs = fromEnv(EnvName("CLI_ALWAYS_ALLOW_TS"), settings.alwaysAllowTs, bool),
               !.loader = fromEnv(EnvName("CLI_LOADER"), settings.loader, loaderOptionFromEnv)]
  IN IF EnvName("CLI_CONFIG") \in DOMAIN penv /\ EndsWith(penv[EnvName("CLI_CONFIG")], TsExtension)
     THEN [s1 EXCEPT !.useTsNode = JBool(TRUE)]
     ELSE s1

\* isESM(): the package.json's type is 'module'
isESM(pkg) == Coalesce(pkg.type, JStr(<<>>)) = JStr(<<"module">>)

\* Utils.unique: [...new Set(items)]
RECURSIVE unique(_)
unique(items) ==
  IF items = <<>> THEN <<>>
  ELSE LET rest == unique(SubSeq(items, 1, Len(items) - 1))
           last == items[Len(items)]
       IN IF \E i \in DOMAIN rest : rest[i] = last THEN rest ELSE Append(rest, last)


Cwd == <<"/cwd">>
SrcConfigTs == <<"./", "src", "/", "mikro-orm.config", ".ts">>
RootConfigTs == <<"./", "mikro-orm.config", ".ts">>
RootConfigJs == <<"./", "mikro-orm.config", ".js">>
\* `./${path}/mikro-orm.config.js`
DirConfigJs(dir) == <<"./", dir, "/", "mikro-orm.config", ".js">>

\* Utils.detectTsNode(): a TypeScript-capable loader is registered; bun is one
detectTsNode(rt) == rt.tsNode \/ Truthy(rt.bun)

\* a choice of the folder that looks into build before dist
compiledPathBuildFirst(distDir, buildDir) ==
  IF buildDir THEN "build" ELSE (IF distDir THEN "dist" ELSE "src")
\* const path = distDir ? 'dist' : (buildDir ? 'build' : 'src')
compiledPath(distDir, buildDir) ==
  IF distDir THEN "dist" ELSE (IF buildDir THEN "build" ELSE "src")

\* a filter that keeps every path
keepPathAlways(p, tsNode, alwaysAllowTs) == TRUE
\* the filter of getConfigPaths
keepPath(p, tsNode, alwaysAllowTs) ==
  EndsWith(p, JsExtension) \/ tsNode \/ Truthy(alwaysAllowTs)

getConfigPaths(penv, pkg, files, rt) ==
  LET settings == getSettings(penv, pkg)
      p1 == IF Truthy(EnvGet(penv, EnvName("CLI_CONFIG")))
            THEN <<penv[EnvName("CLI_CONFIG")]>> ELSE <<>>
      declared == IF Truthy(settings.configPaths) THEN settings.configPaths.v ELSE <<>>
      p2 == p1 \o [i \in DOMAIN declared |-> declared[i].v]
      alwaysAllowTs == Coalesce(settings.alwaysAllowTs, rt.bun)
      p3 == IF settings.useTsNode /= JBool(FALSE) \/ Truthy(alwaysAllowTs)
            THEN p2 \o <<SrcConfigTs, RootConfigTs>> ELSE p2
      distDir == (Cwd \o <<"/dist">>) \in files
      buildDir == (Cwd \o <<"/build">>) \in files
      path == compiledPath(distDir, buildDir)
      p4 == p3 \o <<DirConfigJs(path), RootConfigJs>>
      tsNode == detectTsNode(rt)
      keep(p) == keepPath(p, tsNode, alwaysAllowTs)
  IN SelectSeq(unique(p4), keep)

-----------------------------------------------------------------------------
(* getORMPackages, getORMPackageVersion, checkPackageVersion. *)

OrmScope == <<"@mikro-orm/">>
CorePackage == <<"@mikro-orm/", "core">>
exceptions == {<<"nestjs">>, <<"sql-highlighter">>, <<"mongo-highlighter">>}

\* new Set([...Object.keys(dependencies ?? {}), ...Object.keys(devDependencies ?? {})])
getORMPackages(pkg) == unique(pkg.dependencies \o pkg.devDependencies)

\* the version of the package's package.json; undefined when requiring it throws
getORMPackageVersion(inst, name) ==
  IF name \in DOMAIN inst /\ inst[name].t = "string" THEN inst[name] ELSE Undefined

\* a filter that keeps every package of the scope
isOrmPackageOfAnyName(d) == StartsWith(d, OrmScope)
isOrmPackage(d) ==
  /\ StartsWith(d, OrmScope)
  /\ d /= CorePackage
  /\ Substring(d, Len(OrmScope)) \notin exceptions

\* the value returned, or the error thrown
Returned(x) == [ok |-> TRUE, value |-> x]
Thrown(kind, detail) == [ok |-> FALSE, kind |-> kind, detail |-> detail]

checkPackageVersion(penv, pkg, inst, rt) ==
  LET coreVersion == rt.coreVersion
      deps == getORMPackages(pkg)
      ormPackages == SelectSeq(deps, isOrmPackage)
      bad(i) == LET version == getORMPackageVersion(inst, ormPackages[i])
                IN version.t /= "undefined" /\ version /= JStr(coreVersion)
  IN IF Truthy(EnvGet(penv, EnvName("ALLOW_VERSION_MISMATCH"))) THEN Returned(coreVersion)
     ELSE IF \E i \in DOMAIN ormPackages : bad(i)
     THEN LET i == CHOOSE i \in DOMAIN ormPackages :
                     bad(i) /\ \A j \in 1..(i - 1) : ~bad(j)
          IN Thrown("VersionMismatch",
                    [package |-> ormPackages[i],
                     version |-> getORMPackageVersion(inst, ormPackages[i]).v,
                     expected |-> coreVersion])
     ELSE Returned(coreVersion)

-----------------------------------------------------------------------------
(* Utils.mergeConfig, Utils.absolutePath, Utils.normalizePath. *)

\* a deep merge of the mapping source into the mapping target: nested mappings
\* merge key by key, any other value replaces
RECURSIVE merge(_, _)
merge(target, source) ==
  [k \in DOMAIN target \cup DOMAIN source |->
     IF k \notin DOMAIN source THEN target[k]
     ELSE IF source[k].t = "object" /\ k \in DOMAIN target /\ target[k].t = "object"
     THEN JObj(merge(target[k].v, source[k].v))
     ELSE source[k]]

\* Utils.mergeConfig(target, ...sources): the sources merged into target from
\* left to right; a target or a source that is not a mapping merges nothing
RECURSIVE mergeConfig(_, _)
mergeConfig(target, sources) ==
  IF sources = <<>> THEN target
  ELSE IF target.t = "object" /\ Head(sources).t = "object"
  THEN mergeConfig(JObj(merge(target.v, Head(sources).v)), Tail(sources))
  ELSE mergeConfig(target, Tail(sources))

\* Utils.normalizePath(Utils.absolutePath(path)): a relative path ('./x' or 'x')
\* resolved against the working directory
absolutePath(path) ==
  IF path = <<>> THEN Cwd
  ELSE IF Head(path) = "/" THEN path
  ELSE IF Head(path) = "./" THEN Cwd \o <<"/">> \o Tail(path)
  ELSE Cwd \o <<"/">> \o path

-----------------------------------------------------------------------------
(* The selection of one config object: configFinder, isValidConfigFactoryResult. *)

DefaultContext == <<"default">>

configFinder(cfg, ctx) ==
  /\ IsObjectLike(cfg)
  /\ IF HasContextName(cfg) THEN cfg.v["contextName"] = JStr(ctx) ELSE ctx = DefaultContext

\* a factory result held to the rule of the exported objects
isValidConfigFactoryResultAsExport(cfg, ctx) == configFinder(cfg, ctx)
isValidConfigFactoryResult(cfg, ctx) ==
  /\ IsObjectLike(cfg)
  /\ (~HasContextName(cfg) \/ cfg.v["contextName"] = JStr(ctx))

\* Array.prototype.findIndex / findLastIndex of configFinder: a 0-based index, or -1
findIndex(arr, ctx) ==
  IF \E i \in DOMAIN arr : configFinder(arr[i], ctx)
  THEN (CHOOSE i \in DOMAIN arr :
          configFinder(arr[i], ctx) /\ \A j \in 1..(i - 1) : ~configFinder(arr[j], ctx)) - 1
  ELSE -1
\* a search from the end that reports the first match
findLastIndexFromStart(arr, ctx) == findIndex(arr, ctx)
findLastIndex(arr, ctx) ==
  IF \E i \in DOMAIN arr : configFinder(arr[i], ctx)
  THEN (CHOOSE i \in DOMAIN arr :
          configFinder(arr[i], ctx) /\ \A j \in (i + 1)..Len(arr) : ~configFinder(arr[j], ctx)) - 1
  ELSE -1

\* configPathsFromArg(): the path given by the command line argument, if any
configPathsFromArg(penv, rt) ==
  LET configArgName == Coalesce(EnvGet(penv, EnvName("CONFIG_ARG_NAME")), JStr(<<"config">>)).v
  IN IF configArgName \in DOMAIN rt.argv /\ Truthy(JStr(rt.argv[configArgName]))
     THEN JArr(<<rt.argv[configArgName]>>)
     ELSE Undefined

\* commonJSCompat(options): options.dynamicImportProvider ??= ..., unless ESM
DynamicImportProvider == JFn("dynamicImportProvider")
commonJSCompat(opts, pkg) ==
  IF isESM(pkg) \/ "dynamicImportProvider" \in DOMAIN opts.v THEN opts
  ELSE JObj(Put(opts.v, "dynamicImportProvider", DynamicImportProvider))

\* a propagation in which the dotenv file wins over the process environment
registerDotenvOverwriting(penv, dotenvVars) ==
  LET known == {k \in DOMAIN dotenvVars : StartsWith(k, EnvPrefix)}
  IN [k \in DOMAIN penv \cup known |-> IF k \in known THEN dotenvVars[k] ELSE penv[k]]
\* registerDotenv: the process.env it leaves, given the variables of the dotenv file
registerDotenv(penv, dotenvVars) ==
  LET added == {k \in DOMAIN dotenvVars : StartsWith(k, EnvPrefix) /\ k \notin DOMAIN penv}
  IN [k \in DOMAIN penv \cup added |-> IF k \in DOMAIN penv THEN penv[k] ELSE dotenvVars[k]]

-----------------------------------------------------------------------------
(* The inputs the model draws. *)

S(token) == <<token>>

\* candidate paths: RootConfigJs and BareConfigJs name the same file
BareConfigJs == <<"mikro-orm.config", ".js">>
OtherConfigTs == <<"/", "etc", "/", "orm.config", ".ts">>
CandidateLists == {<<>>, <<RootConfigJs>>, <<DirConfigJs("dist"), OtherConfigTs, RootConfigJs>>,
                   <<BareConfigJs, RootConfigJs>>, <<RootConfigJs, OtherConfigTs>>}
ConfigFiles == {absolutePath(RootConfigJs), absolutePath(OtherConfigTs)}

RequestedContexts == {DefaultContext, S("a")}

FileValues == [host |-> JStr(S("file")),
               entityGenerator |-> JObj([esmImport |-> JBool(FALSE)])]
\* a config object of the file: its contextName ("" for none) and its position
FileConfig(name, i) ==
  LET base == Put(FileValues, "port", JNum(i))
  IN JObj(IF name = "" THEN base ELSE Put(base, "contextName", JStr(S(name))))
Factory == JFn("factory")
Entry(kind, i) ==
  CASE kind = "function" -> Factory
    [] kind = "null" -> JNull
    [] OTHER -> FileConfig(kind, i)
EntryKinds == {"", "default", "a", "function", "null"}
ArrayExports ==
  {JArr([i \in 1..n |-> Entry(kinds[i], i)]) :
     n \in 0..MaxEntries, kinds \in [1..MaxEntries -> EntryKinds]}
Exports ==
  ArrayExports \cup {FileConfig(name, 0) : name \in {"", "default", "a"}} \cup {Factory, JNull}

\* what a factory function returns when called with ctx
FactoryResults(ctx) ==
  {JObj([user |-> JStr(S("factory"))]),
   JObj([user |-> JStr(S("factory")), contextName |-> JStr(ctx)]),
   JObj([user |-> JStr(S("factory")), contextName |-> JStr(S("other"))]),
   JArr(<<JObj([user |-> JStr(S("factory"))])>>),
   Undefined}

CallerOptionChoices ==
  {JObj(EmptyMap),
   JObj([host |-> JStr(S("caller")), entityGenerator |-> JObj([esmImport |-> JStr(S("caller"))])])}

EnvChoices ==
  LET v(k) == IF k = EnvName("TYPE") THEN S("nope")
              ELSE IF k = EnvName("CONTEXT_NAME") THEN S("a")
              ELSE S("env")
  IN {[k \in {EnvName(n) : n \in names} |-> v(k)] : names \in {{}, {"HOST"}, {"TYPE"}, {"MIGRATIONS_PATH"},
                                  {"CONTEXT_NAME"}, {"HOST", "CONTEXT_NAME"}}}
DotenvChoices ==
  {EmptyMap,
   [k \in {EnvName("HOST"), <<"OTHER_", "HOST">>} |-> S("dotenv")]}

Manifests == {[NoManifest EXCEPT !.type = t] : t \in {Undefined, JStr(S("module"))}}
\* node, no TypeScript loader registered, no or one --config argument
Runtime(argv) == [bun |-> Undefined, tsNode |-> FALSE, argv |-> argv, coreVersion |-> S("6.0.0")]
NoArgv == [k \in {} |-> <<>>]

NoError == [ok |-> TRUE]

-----------------------------------------------------------------------------
(* getConfiguration. *)

InitCall ==
  /\ pc = "idle"
  /\ form = ""
  /\ contextName = <<>>
  /\ paths = <<>>
  /\ options = Undefined
  /\ callerOptions = Undefined
  /\ env = Undefined
  /\ idx = 0
  /\ foundPath = <<>>
  /\ tmp = Undefined
  /\ rawExport = Undefined
  /\ imported = Undefined
  /\ result = Undefined
  /\ error = NoError
  /\ existsLog = <<>>
  /\ importLog = <<>>
  /\ callLog = <<>>
  /\ calls = <<>>

Init ==
  /\ processEnv \in EnvChoices
  /\ manifest \in Manifests
  /\ fs \in SUBSET ConfigFiles
  /\ runtime \in {Runtime(NoArgv), Runtime([k \in {S("config")} |-> OtherConfigTs])}
  /\ installed = EmptyMap
  /\ InitCall

Fail(kind, detail) ==
  /\ pc' = "failed"
  /\ error' = Thrown(kind, detail)

\* the body of getConfiguration from `const env = this.loadEnvironmentVars()` to
\* the first await of getConfigFile
Enter(f, ctx, ps, opts, callerOpts, penv) ==
  /\ form' = f
  /\ contextName' = ctx
  /\ paths' = ps
  /\ options' = opts
  /\ callerOptions' = callerOpts
  /\ idx' = 1
  /\ IF loadEnvironmentVarsThrows(penv)
     THEN Fail("LookupFailure", penv[EnvName("TYPE")]) /\ UNCHANGED env
     ELSE pc' = "getConfigFile" /\ env' = JObj(loadEnvironmentVars(penv)) /\ UNCHANGED error

\* getConfiguration(contextName, paths?, options?)
GetConfiguration(ctx, ps, opts) ==
  /\ pc = "idle"
  /\ Enter("contextName", ctx, ps, opts, opts, processEnv)
  /\ UNCHANGED <<worldVars, foundPath, tmp, rawExport, imported, result, logVars, calls>>

\* getConfiguration(validate, options?): the backwards compatibility layer
GetConfigurationLegacy(validate, given, opts, dotenvVars) ==
  /\ pc = "idle"
  /\ LET options3 == commonJSCompat(JObj(EmptyMap), manifest)
         penv == registerDotenv(processEnv, dotenvVars)
         configPathFromArg == configPathsFromArg(penv, runtime)
         defaultPaths == IF given THEN getConfigPaths(penv, manifest, fs, runtime)
                         ELSE getConfigPaths(processEnv, manifest, fs, runtime)
         configPaths == IF configPathFromArg.t = "array" THEN configPathFromArg.v
                        ELSE defaultPaths
         passed == IF given THEN opts ELSE JObj(EmptyMap)
     IN /\ processEnv' = penv
        /\ IF validate
           THEN Enter("validate", Coalesce(EnvGet(penv, EnvName("CONTEXT_NAME")), JStr(DefaultContext)).v,
                      configPaths, passed, passed, penv)
           ELSE Enter("noValidate", <<>>, configPaths, options3, passed, penv)
  /\ UNCHANGED <<manifest, fs, runtime, installed, foundPath, tmp, rawExport, imported,
                 result, logVars, calls>>

\* a file system on which every path exists
pathExistsSyncAlways(path, files) == TRUE
\* Utils.pathExistsSync(path)
pathExistsSync(path, files) == path \in files

\* getConfigFile: one turn of the loop over the paths
ProbePath ==
  /\ pc = "getConfigFile"
  /\ idx <= Len(paths)
  /\ LET path == absolutePath(paths[idx])
     IN /\ existsLog' = Append(existsLog, path)
        /\ IF pathExistsSync(path, fs)
           THEN pc' = "import" /\ foundPath' = path /\ UNCHANGED idx
           ELSE idx' = idx + 1 /\ UNCHANGED <<pc, foundPath>>
  /\ UNCHANGED <<worldVars, form, contextName, paths, options, callerOptions, env, tmp,
                 rawExport, imported, result, error, importLog, callLog, calls>>

\* getConfigFile returns []: no path exists
NoConfigFile ==
  /\ pc = "getConfigFile"
  /\ idx > Len(paths)
  /\ IF hasObjectKeys(env.v)
     THEN /\ pc' = "done"
          /\ result' = IF form = "noValidate"
                       THEN mergeConfig(JObj(EmptyMap), <<options, env>>)
                       ELSE mergeConfig(JObj([contextName |-> JStr(contextName)]), <<options, env>>)
          /\ UNCHANGED error
     ELSE Fail("NotFound", paths) /\ UNCHANGED result
  /\ UNCHANGED <<worldVars, form, contextName, paths, options, callerOptions, env, idx,
                 foundPath, tmp, rawExport, imported, logVars, calls>>

\* await configLoader.import(path): the loader returns the file's export
Import(export) ==
  /\ pc = "import"
  /\ importLog' = Append(importLog, foundPath)
  /\ imported' = export
  /\ rawExport' = export
  /\ tmp' = export
  /\ pc' = IF form = "noValidate" THEN "mergeLegacy" ELSE "select"
  /\ UNCHANGED <<worldVars, form, contextName, paths, options, callerOptions, env, idx,
                 foundPath, result, error, existsLog, callLog, calls>>

\* the selection up to its first await
Select ==
  /\ pc = "select"
  /\ IF IsArray(tmp)
     THEN LET tmpFirstIndex == findIndex(tmp.v, contextName)
              tmpLastIndex == findLastIndex(tmp.v, contextName)
          IN IF tmpFirstIndex = -1
             THEN pc' = "factories" /\ idx' = 1 /\ UNCHANGED <<tmp, error>>
             ELSE IF tmpLastIndex /= tmpFirstIndex
             THEN /\ Fail("NotUnique", [first |-> tmpFirstIndex, last |-> tmpLastIndex])
                  /\ UNCHANGED <<tmp, idx>>
             ELSE pc' = "merge" /\ tmp' = tmp.v[tmpFirstIndex + 1] /\ UNCHANGED <<idx, error>>
     ELSE IF IsFunction(tmp)
     THEN pc' = "factory" /\ UNCHANGED <<tmp, idx, error>>
     ELSE IF ~configFinder(tmp, contextName)
     THEN Fail("NotProvidedByExport", foundPath) /\ UNCHANGED <<tmp, idx>>
     ELSE pc' = "merge" /\ UNCHANGED <<tmp, idx, error>>
  /\ UNCHANGED <<worldVars, form, contextName, paths, options, callerOptions, env,
                 foundPath, rawExport, imported, result, logVars, calls>>

\* the factory loop: an entry that is not a function is passed over
SkipEntry ==
  /\ pc = "factories"
  /\ idx <= Len(tmp.v)
  /\ ~IsFunction(tmp.v[idx])
  /\ idx' = idx + 1
  /\ UNCHANGED <<worldVars, pc, form, contextName, paths, options, callerOptions, env,
                 foundPath, tmp, rawExport, imported, result, error, logVars, calls>>

\* the factory loop: configCandidate = await f(contextName)
InvokeEntry(configCandidate) ==
  /\ pc = "factories"
  /\ idx <= Len(tmp.v)
  /\ IsFunction(tmp.v[idx])
  /\ callLog' = Append(callLog, <<idx - 1, contextName, configCandidate>>)
  /\ IF ~isValidConfigFactoryResult(configCandidate, contextName)
     THEN idx' = idx + 1 /\ UNCHANGED <<pc, tmp, error>>
     ELSE /\ tmp' = configCandidate
          /\ UNCHANGED idx
          /\ IF IsArray(configCandidate)
             THEN Fail("NotFoundInFile", foundPath)
             ELSE pc' = "merge" /\ UNCHANGED error
  /\ UNCHANGED <<worldVars, form, contextName, paths, options, callerOptions, env,
                 foundPath, rawExport, imported, result, existsLog, importLog, calls>>

\* the factory loop ends with tmp still the array
NoEntryLeft ==
  /\ pc = "factories"
  /\ idx > Len(tmp.v)
  /\ Fail("NotFoundInFile", foundPath)
  /\ UNCHANGED <<worldVars, form, contextName, paths, options, callerOptions, env, idx,
                 foundPath, tmp, rawExport, imported, result, logVars, calls>>

\* tmp = await tmp(contextName), the export being a function
InvokeExport(returned) ==
  /\ pc = "factory"
  /\ callLog' = Append(callLog, <<-1, contextName, returned>>)
  /\ tmp' = returned
  /\ IF ~isValidConfigFactoryResult(returned, contextName)
     THEN Fail("NotProvidedByFunction", foundPath)
     ELSE pc' = "merge" /\ UNCHANGED error
  /\ UNCHANGED <<worldVars, form, contextName, paths, options, callerOptions, env, idx,
                 foundPath, rawExport, imported, result, existsLog, importLog, calls>>

\* new Configuration(Utils.mergeConfig({}, esmConfigOptions, tmp, options, env))
Merge ==
  /\ pc = "merge"
  /\ LET esmConfigOptions == IF isESM(manifest)
                             THEN JObj([entityGenerator |-> JObj([esmImport |-> JBool(TRUE)])])
                             ELSE JObj(EmptyMap)
     IN result' = mergeConfig(JObj(EmptyMap), <<esmConfigOptions, tmp, options, env>>)
  /\ pc' = "done"
  /\ UNCHANGED <<worldVars, form, contextName, paths, options, callerOptions, env, idx,
                 foundPath, tmp, rawExport, imported, error, logVars, calls>>

\* new Configuration(Utils.mergeConfig(tmp, options, env), false): tmp is the
\* target of the merge, and tmp is the object the loader returned
MergeLegacy ==
  /\ pc = "mergeLegacy"
  /\ result' = mergeConfig(tmp, <<options, env>>)
  /\ rawExport' = result'
  /\ pc' = "done"
  /\ UNCHANGED <<worldVars, form, contextName, paths, options, callerOptions, env, idx,
                 foundPath, tmp, imported, error, logVars, calls>>

Next ==
  \/ \E ctx \in RequestedContexts, ps \in CandidateLists, opts \in CallerOptionChoices :
       GetConfiguration(ctx, ps, opts)
  \/ \E validate \in BOOLEAN, given \in BOOLEAN, opts \in CallerOptionChoices,
        dotenvVars \in DotenvChoices :
       GetConfigurationLegacy(validate, given, opts, dotenvVars)
  \/ ProbePath
  \/ NoConfigFile
  \/ \E export \in Exports : Import(export)
  \/ Select
  \/ SkipEntry
  \/ \E configCandidate \in FactoryResults(contextName) : InvokeEntry(configCandidate)
  \/ NoEntryLeft
  \/ \E returned \in FactoryResults(contextName) : InvokeExport(returned)
  \/ Merge
  \/ MergeLegacy

Spec == Init /\ [][Next]_vars

-----------------------------------------------------------------------------
(* The claims about getConfiguration, checked under Spec. *)

Finished == pc \in {"done", "failed"}
LegacyNoValidate == form = "noValidate"
FailedWith(kind) == pc = "failed" /\ ~error.ok /\ error.kind = kind

\* the option keys a source sets: <<k>> for a value that is no mapping, <<k, j>>
\* for the key j of the mapping under k
SetsAt(src, p) ==
  /\ src.t = "object"
  /\ p[1] \in DOMAIN src.v
  /\ IF Len(p) = 1 THEN src.v[p[1]].t /= "object"
     ELSE src.v[p[1]].t = "object" /\ p[2] \in DOMAIN src.v[p[1]].v
ValueAt(src, p) == IF Len(p) = 1 THEN src.v[p[1]] ELSE src.v[p[1]].v[p[2]]
KeysOf(src) ==
  IF src.t /= "object" THEN {}
  ELSE {<<k>> : k \in {k \in DOMAIN src.v : src.v[k].t /= "object"}}
       \cup UNION {{<<k, j>> : j \in DOMAIN src.v[k].v} :
                     k \in {k \in DOMAIN src.v : src.v[k].t = "object"}}

EsmFlag ==
  IF isESM(manifest) THEN JObj([entityGenerator |-> JObj([esmImport |-> JBool(TRUE)])])
  ELSE JObj(EmptyMap)
\* the sources of the merge, lowest precedence first: the ESM flag, the config
\* selected from the file, the options of the caller, the decoded environment
Sources == <<EsmFlag, tmp, callerOptions, env>>

\* every key that several sources set has the value of the highest of them
Precedence ==
  \A p \in UNION {KeysOf(Sources[i]) : i \in 1..4} :
    \A i \in 1..4 :
      (/\ SetsAt(Sources[i], p)
       /\ \E j \in 1..(i - 1) : SetsAt(Sources[j], p)
       /\ \A j \in (i + 1)..4 : ~SetsAt(Sources[j], p))
        => (SetsAt(result, p) /\ ValueAt(result, p) = ValueAt(Sources[i], p))

\* a call has returned the merge of a config object found in a file
MergedFromFile == pc = "done" /\ foundPath /= <<>> /\ tmp.t = "object"

\* C1: in every call form that finds a config file, every option key set by
\* several sources ends with the value of the highest source in the order ESM
\* flag < file config < caller options < environment.
C1_MergePrecedence ==
  MergedFromFile => Precedence

\* The same precedence, of the call forms that merge the caller's options.
C1_PrecedenceWhenValidating ==
  (MergedFromFile /\ ~LegacyNoValidate) => Precedence

\* the entries of an array export that match the requested context name
MatchesContext(entry, ctx) ==
  /\ entry.t \in {"object", "array"}
  /\ \/ HasContextName(entry) /\ entry.v["contextName"] = JStr(ctx)
     \/ ~HasContextName(entry) /\ ctx = DefaultContext
M == IF imported.t = "array"
     THEN {i \in DOMAIN imported.v : MatchesContext(imported.v[i], contextName)}
     ELSE {}
Least(set) == CHOOSE i \in set : \A j \in set : i <= j
Greatest(set) == CHOOSE i \in set : \A j \in set : i >= j
Selecting == ~LegacyNoValidate /\ pc \in {"factories", "factory", "merge", "done", "failed"}

\* C2: of an array export, the single matching entry is selected; several
\* matching entries fail with the non-unique error that reports the first and the
\* last matching index; and when an entry matches, the first matching index
\* differs from the last one exactly when the matches are not one.
C2_UniqueMatch ==
  (Selecting /\ imported.t = "array") =>
    /\ Cardinality(M) = 1 =>
         /\ pc \in {"merge", "done"}
         /\ tmp = imported.v[Least(M)]
    /\ Cardinality(M) > 1 =>
         /\ FailedWith("NotUnique")
         /\ error.detail = [first |-> Least(M) - 1, last |-> Greatest(M) - 1]
    /\ M /= {} =>
         ((findIndex(imported.v, contextName) /= findLastIndex(imported.v, contextName))
            <=> Cardinality(M) /= 1)

C2_Witness ==
  /\ FailedWith("NotUnique")
  /\ imported.t = "array"
  /\ Cardinality(M) > 1

\* the factory loop of an array export with no matching entry
InFactoryLoop == Selecting /\ imported.t = "array" /\ M = {}
\* a returned config value whose own contextName is absent or the requested one
Acceptable(r) ==
  /\ r.t \in {"object", "array"}
  /\ (~HasContextName(r) \/ r.v["contextName"] = JStr(contextName))
Callables == {i \in DOMAIN imported.v : imported.v[i].t = "function"}
Called == {callLog[n][1] + 1 : n \in DOMAIN callLog}

\* the callable entries are invoked in array order, one at a time, each with the
\* requested name, and none after the first that returns an acceptable value
InvokedInOrder ==
  /\ \A n \in DOMAIN callLog :
       /\ callLog[n][1] + 1 \in Callables
       /\ callLog[n][2] = contextName
       /\ \A m \in 1..(n - 1) : callLog[m][1] < callLog[n][1] /\ ~Acceptable(callLog[m][3])
  /\ \A i \in Callables : (\E j \in Called : i < j) => i \in Called
  /\ (Finished /\ \A n \in DOMAIN callLog : ~Acceptable(callLog[n][3])) => Called = Callables

\* C3: with no matching entry, the callable entries are invoked in order until
\* one returns a value whose contextName is absent or the requested one; that
\* first result is the selected configuration, and the 'not found within the
\* config file' error is raised only if no callable entry returns such a value.
C3_FactoryFallback ==
  InFactoryLoop =>
    /\ InvokedInOrder
    /\ \A n \in DOMAIN callLog :
         Acceptable(callLog[n][3]) => (pc \in {"merge", "done"} /\ tmp = callLog[n][3])
    /\ FailedWith("NotFoundInFile") => \A n \in DOMAIN callLog : ~Acceptable(callLog[n][3])

\* The factory loop as the code runs it: the order of the invocations, and the
\* first acceptable result selected unless it is an array.
C3_FactoryLoopOfTheCode ==
  InFactoryLoop =>
    /\ InvokedInOrder
    /\ \A n \in DOMAIN callLog :
         (Acceptable(callLog[n][3]) /\ callLog[n][3].t /= "array")
           => (pc \in {"merge", "done"} /\ tmp = callLog[n][3])
    /\ FailedWith("NotFoundInFile") =>
         \A n \in DOMAIN callLog : (Acceptable(callLog[n][3]) => callLog[n][3].t = "array")

\* the call of an exported function has returned
ExportCalled == ~LegacyNoValidate /\ imported.t = "function" /\ pc \in {"merge", "done", "failed"}
ExportChecked == ~LegacyNoValidate /\ imported.t = "object" /\ pc \in {"merge", "done", "failed"}
CarriesOtherName(r) == HasContextName(r) /\ r.v["contextName"] /= JStr(contextName)
PlainObjectFits ==
  \/ HasContextName(imported) /\ imported.v["contextName"] = JStr(contextName)
  \/ ~HasContextName(imported) /\ contextName = DefaultContext

\* C4 as claimed: an exported function is invoked exactly once with the
\* requested name and fails with the shape mismatch iff its result carries another
\* contextName; an exported plain object fails unless its contextName is the
\* requested one, or it has none and the request is "default".
C4_AsClaimed ==
  /\ ExportCalled =>
       /\ Len(callLog) = 1 /\ callLog[1][2] = contextName
       /\ FailedWith("NotProvidedByFunction") <=> CarriesOtherName(callLog[1][3])
  /\ ExportChecked => (FailedWith("NotProvidedByExport") <=> ~PlainObjectFits)

\* C4 as amended: an exported function is invoked exactly once with the requested
\* name and fails with the shape mismatch iff its result is no object (null,
\* undefined, a primitive) or carries another contextName; an exported plain
\* object fails unless its contextName is the requested one, or it has none and
\* the request is "default".
C4_ShapeMismatch ==
  /\ ExportCalled =>
       /\ Len(callLog) = 1 /\ callLog[1][2] = contextName
       /\ FailedWith("NotProvidedByFunction")
            <=> (callLog[1][3].t \notin {"object", "array"} \/ CarriesOtherName(callLog[1][3]))
       /\ ~FailedWith("NotProvidedByFunction") => tmp = callLog[1][3]
  /\ ExportChecked => (FailedWith("NotProvidedByExport") <=> ~PlainObjectFits)

C4_Witness ==
  /\ ExportCalled
  /\ FailedWith("NotProvidedByFunction")
  /\ callLog[1][3] = Undefined

\* getConfigFile has returned [] and the environment was decoded
NoFileFound ==
  /\ Finished
  /\ foundPath = <<>>
  /\ ~FailedWith("LookupFailure")
RecognizedNames == {e.envKey : e \in EnvEntries}
\* the provider commonJSCompat installs aside
WithoutProvider(x) ==
  IF x.t = "object" /\ "dynamicImportProvider" \in DOMAIN x.v
  THEN JObj(Delete(x.v, "dynamicImportProvider")) ELSE x

\* C5: when no candidate path exists, the call fails with the 'config file not
\* found' error listing the candidate paths in order if no recognized variable is
\* set, and otherwise succeeds with the merge of {contextName} (nothing in the
\* legacy form that does not validate), the caller's options and the environment.
C5_NoConfigFile ==
  NoFileFound =>
    IF RecognizedNames \cap DOMAIN processEnv = {}
    THEN FailedWith("NotFound") /\ error.detail = paths
    ELSE /\ pc = "done"
         /\ WithoutProvider(result) =
              mergeConfig(IF LegacyNoValidate THEN JObj(EmptyMap)
                          ELSE JObj([contextName |-> JStr(contextName)]),
                          <<callerOptions, env>>)

\* The same, of the call forms that merge the caller's options.
C5_NoConfigFileWhenValidating ==
  (NoFileFound /\ ~LegacyNoValidate) =>
    IF RecognizedNames \cap DOMAIN processEnv = {}
    THEN FailedWith("NotFound") /\ error.detail = paths
    ELSE /\ pc = "done"
         /\ result = mergeConfig(JObj([contextName |-> JStr(contextName)]),
                                 <<callerOptions, env>>)

\* the candidate paths, as getConfigFile tests them
Candidate(i) == absolutePath(paths[i])
FirstExisting ==
  IF \E i \in DOMAIN paths : Candidate(i) \in fs
  THEN Least({i \in DOMAIN paths : Candidate(i) \in fs})
  ELSE 0
PastGetConfigFile == pc \notin {"idle", "getConfigFile", "import"} /\ ~FailedWith("LookupFailure")

\* C10: getConfigFile tests the candidate paths in the given order, imports once,
\* the first existing path, and returns it with the import's result; it imports
\* no path that does not exist and none after the first existing one, and returns
\* the empty result without an import when no path exists.
C10_FirstExistingPath ==
  /\ Len(existsLog) <= Len(paths)
  /\ \A n \in DOMAIN existsLog :
       /\ existsLog[n] = Candidate(n)
       /\ \A m \in 1..(n - 1) : existsLog[m] \notin fs
  /\ Len(importLog) <= 1
  /\ \A n \in DOMAIN importLog :
       /\ importLog[n] \in fs
       /\ importLog[n] = Candidate(FirstExisting)
       /\ Len(existsLog) = FirstExisting
  /\ PastGetConfigFile =>
       IF FirstExisting = 0
       THEN importLog = <<>> /\ foundPath = <<>> /\ Len(existsLog) = Len(paths)
       ELSE importLog = <<Candidate(FirstExisting)>> /\ foundPath = Candidate(FirstExisting)

C10_Witness ==
  /\ PastGetConfigFile
  /\ FirstExisting = 2
  /\ importLog /= <<>>
  /\ \E i \in DOMAIN paths : i > FirstExisting /\ Candidate(i) \in fs

\* C11: in every call form the value the loader's import returned, the selected
\* config object inside it included, is left as it was returned: the merge writes
\* into a mapping created for the call, never into the export.
C11_RawExportUnchanged == rawExport = imported

\* The same, of the call forms that merge into a new mapping.
C11_UnchangedWhenValidating == ~LegacyNoValidate => rawExport = imported

-----------------------------------------------------------------------------
(* getSettings and getConfigPaths, called on a fixed environment, package.json,
   file system and runtime: SpecPaths. Each call appends what it returned to
   calls. *)

True == <<"t", "r", "u", "e">>
False == <<"f", "a", "l", "s", "e">>
TrueUpper == <<"T", "R", "U", "E">>

CustomConfigTs == <<"./", "custom.config", ".ts">>
CustomConfigJs == <<"./", "custom.config", ".js">>
PathOverrides == {<<>>, CustomConfigTs, CustomConfigJs, RootConfigJs}
DeclaredPaths == {Undefined,
                  JArr(<<JStr(RootConfigTs), JStr(CustomConfigJs)>>),
                  JArr(<<JStr(CustomConfigTs), JStr(CustomConfigTs)>>)}
DistFolder == Cwd \o <<"/dist">>
BuildFolder == Cwd \o <<"/build">>

Unset == <<"(unset)">>
\* an environment that sets each of the named variables, or leaves it out
EnvOf(assignment) ==
  LET set == {n \in DOMAIN assignment : assignment[n] /= Unset}
  IN [k \in {EnvName(n) : n \in set} |->
        assignment[CHOOSE n \in set : EnvName(n) = k]]
PathEnvChoices ==
  {EnvOf([CLI_CONFIG |-> c, CLI_USE_TS_NODE |-> u, CLI_ALWAYS_ALLOW_TS |-> a]) :
     c \in PathOverrides \cup {Unset},
     u \in {Unset, True, False},
     a \in {Unset, True, False, TrueUpper}}
PathManifests ==
  {[NoManifest EXCEPT !.settings = [NoSettings EXCEPT !.configPaths = c,
                                                      !.useTsNode = u,
                                                      !.alwaysAllowTs = a]] :
     c \in DeclaredPaths, u \in {Undefined, JBool(FALSE)}, a \in {Undefined, JBool(TRUE)}}
PathRuntimes ==
  {[Runtime(NoArgv) EXCEPT !.bun = b, !.tsNode = t] :
     b \in {Undefined, JStr(S("1.1.0"))}, t \in BOOLEAN}

InitPaths ==
  /\ processEnv \in PathEnvChoices
  /\ manifest \in PathManifests
  /\ fs \in SUBSET {DistFolder, BuildFolder}
  /\ runtime \in PathRuntimes
  /\ installed = EmptyMap
  /\ InitCall

\* a call of a static method that returns at once
Call(op, returned) ==
  /\ Len(calls) < MaxCalls
  /\ calls' = Append(calls, [op |-> op, returned |-> returned])
  /\ UNCHANGED <<worldVars, callVars, logVars>>

GetSettings == Call("getSettings", getSettings(processEnv, manifest))
GetConfigPaths == Call("getConfigPaths", getConfigPaths(processEnv, manifest, fs, runtime))

NextPaths == GetSettings \/ GetConfigPaths

SpecPaths == InitPaths /\ [][NextPaths]_vars

\* the paths getConfigPaths was asked for, by the environment and the package.json
OverridePath ==
  IF EnvName("CLI_CONFIG") \in DOMAIN processEnv /\ processEnv[EnvName("CLI_CONFIG")] /= <<>>
  THEN <<processEnv[EnvName("CLI_CONFIG")]>> ELSE <<>>
ManifestPaths ==
  IF manifest.settings.configPaths.t = "array"
  THEN [i \in DOMAIN manifest.settings.configPaths.v |-> manifest.settings.configPaths.v[i].v]
  ELSE <<>>
TsCandidates == <<SrcConfigTs, RootConfigTs>>
OutputFolder == IF DistFolder \in fs THEN "dist" ELSE IF BuildFolder \in fs THEN "build" ELSE "src"
CompiledCandidates == <<DirConfigJs(OutputFolder), RootConfigJs>>
\* every path of the four groups, in the claimed order
Ordered == OverridePath \o ManifestPaths \o TsCandidates \o CompiledCandidates
FirstAt(seq, x) == Least({i \in DOMAIN seq : seq[i] = x})
PathCalls == {n \in DOMAIN calls : calls[n].op = "getConfigPaths"}

\* C6: getConfigPaths returns a sequence free of duplicates (the first occurrence
\* kept) in the order override path, package.json configPaths as declared,
\* TypeScript candidates, compiled candidates (under dist, else build, else src,
\* then the root); two calls on the same settings, environment and file system
\* return the same sequence.
C6_OrderedUniquePaths ==
  \A n \in PathCalls :
    LET r == calls[n].returned
    IN /\ \A i, j \in DOMAIN r : r[i] = r[j] => i = j
       /\ \A i \in DOMAIN r : \E k \in DOMAIN Ordered : Ordered[k] = r[i]
       /\ \A i, j \in DOMAIN r : i < j => FirstAt(Ordered, r[i]) < FirstAt(Ordered, r[j])
       /\ \A k \in DOMAIN CompiledCandidates : \E i \in DOMAIN r : r[i] = CompiledCandidates[k]
       /\ \A m \in PathCalls : calls[m].returned = r

C6_Witness ==
  /\ PathCalls = {1, 2}
  /\ OverridePath = <<RootConfigJs>>
  /\ ManifestPaths /= <<>>
  /\ DistFolder \notin fs /\ BuildFolder \in fs
  /\ calls[1].returned[1] = RootConfigJs
  /\ Len(calls[1].returned) > 3

\* the settings of the package.json under the variables of the environment
Decoded == getSettings(processEnv, manifest)
OverrideEndsInTs == OverridePath /= <<>> /\ OverridePath[1][Len(OverridePath[1])] = ".ts"
UnderBun == runtime.bun.t = "string"
LoaderDetected == runtime.tsNode \/ UnderBun
AlwaysAllowTsSet == Decoded.alwaysAllowTs = JBool(TRUE)
\* alwaysAllowTs, and bun in its place when it is not set
ForceAllow == IF Decoded.alwaysAllowTs.t = "undefined" THEN UnderBun ELSE AlwaysAllowTsSet
KeptIn(r, p) == \E i \in DOMAIN r : r[i] = p
EndsInJs(p) == p[Len(p)] = ".js"
\* the paths pushed when the TypeScript candidates are offered, or not
Pushed(offerTs) ==
  OverridePath \o ManifestPaths \o (IF offerTs THEN TsCandidates ELSE <<>>) \o CompiledCandidates

\* C7 as claimed: a candidate is kept iff it ends in .js, or a loader is detected,
\* or force-allow holds, which an override path ending in .ts and bun imply too;
\* an override path ending in .ts is returned even when no loader is detected and
\* alwaysAllowTs is not set.
C7_AsClaimed ==
  \A n \in PathCalls :
    LET r == calls[n].returned
        forceAllow == AlwaysAllowTsSet \/ OverrideEndsInTs \/ UnderBun
        pushed == Pushed(Decoded.useTsNode /= JBool(FALSE) \/ forceAllow)
    IN /\ \A k \in DOMAIN pushed :
            KeptIn(r, pushed[k]) <=> (EndsInJs(pushed[k]) \/ LoaderDetected \/ forceAllow)
       /\ OverrideEndsInTs => KeptIn(r, OverridePath[1])

\* C7 as amended: a candidate is kept iff it ends in .js, or a loader is detected
\* (bun is one), or force-allow holds, which is alwaysAllowTs or, when that is not
\* set, bun; an override path ending in .ts offers the TypeScript candidates and
\* forces nothing: it is returned iff a loader is detected or force-allow holds.
C7_KeptPaths ==
  \A n \in PathCalls :
    LET r == calls[n].returned
        pushed == Pushed(Decoded.useTsNode /= JBool(FALSE) \/ ForceAllow)
    IN /\ \A k \in DOMAIN pushed :
            KeptIn(r, pushed[k]) <=> (EndsInJs(pushed[k]) \/ LoaderDetected \/ ForceAllow)
       /\ \A i \in DOMAIN r : KeptIn(pushed, r[i])
       /\ OverrideEndsInTs => (KeptIn(r, OverridePath[1]) <=> (LoaderDetected \/ ForceAllow))
       /\ OverrideEndsInTs => Decoded.useTsNode = JBool(TRUE)

C7_Witness ==
  /\ PathCalls /= {}
  /\ OverrideEndsInTs
  /\ ~LoaderDetected
  /\ ~ForceAllow
  /\ \A n \in PathCalls : ~KeptIn(calls[n].returned, OverridePath[1])

-----------------------------------------------------------------------------
(* The decoding of the boolean-like variables: loadEnvironmentVars and
   getSettings called on an environment that sets some of them: SpecEnv. *)

BooleanLikeStrings ==
  {True, TrueUpper, <<"T", "r", "u", "e">>, <<"t">>, <<"T">>, <<"1">>,
   <<"y", "e", "s">>, <<"Y", "E", "S">>, <<"y">>, <<"Y">>,
   False, <<"F", "A", "L", "S", "E">>, <<"f">>, <<"F">>, <<"0">>,
   <<"n", "o">>, <<"N", "o">>, <<"n">>, <<"N">>, <<>>}
\* strings of neither set: a loader name in two casings
OtherStrings == {<<"s", "w", "c">>, <<"J", "i", "t", "i">>}
BooleanVariables == {"DEBUG", "DISCOVERY_WARN_WHEN_NO_ENTITIES", "MIGRATIONS_SAFE"}
SettingVariables == {"CLI_VERBOSE", "CLI_USE_TS_NODE", "CLI_ALWAYS_ALLOW_TS"}
LoaderVariable == "CLI_LOADER"

InitEnv ==
  /\ \E names \in SUBSET (BooleanVariables \cup SettingVariables \cup {LoaderVariable}),
        value \in BooleanLikeStrings \cup OtherStrings :
       processEnv = [k \in {EnvName(n) : n \in names} |-> value]
  /\ manifest \in {NoManifest,
                   [NoManifest EXCEPT !.settings = [NoSettings EXCEPT !.verbose = JBool(TRUE)]]}
  /\ fs = {}
  /\ runtime = Runtime(NoArgv)
  /\ installed = EmptyMap
  /\ InitCall

LoadEnvironmentVars == Call("loadEnvironmentVars", JObj(loadEnvironmentVars(processEnv)))

NextEnv == LoadEnvironmentVars \/ GetSettings

SpecEnv == InitEnv /\ [][NextEnv]_vars

\* the option a variable of loadEnvironmentVars decodes to
OptionOf(ret, e) ==
  IF e.ns = "" THEN ret.v[e.key] ELSE ret.v[e.ns].v[e.key]
SettingOf(name) ==
  CASE name = "CLI_VERBOSE" -> "verbose"
    [] name = "CLI_USE_TS_NODE" -> "useTsNode"
    [] name = "CLI_ALWAYS_ALLOW_TS" -> "alwaysAllowTs"
IsTruthyString(v) == ToLowerCase(v) \in {True, <<"t">>, <<"1">>, <<"y", "e", "s">>, <<"y">>}
IsFalsyString(v) == ToLowerCase(v) \in {False, <<"f">>, <<"0">>, <<"n", "o">>, <<"n">>, <<>>}
\* the boolean a string of either set stands for, whatever its casing
Expected(v, decoded) ==
  /\ IsTruthyString(v) => decoded = JBool(TRUE)
  /\ IsFalsyString(v) => decoded = JBool(FALSE)
BooleanEntries == {e \in EnvEntries : e.mapper = "toBoolean"}
LoaderExpected(v, decoded) ==
  IF IsFalsyString(v) THEN decoded = JBool(FALSE)
  ELSE IF IsTruthyString(v) THEN decoded = JStr(<<"a", "u", "t", "o">>)
  ELSE decoded = JStr(v)

Decoding(cased(_)) ==
  \A n \in DOMAIN calls :
    /\ calls[n].op = "loadEnvironmentVars" =>
         \A e \in BooleanEntries :
           (e.envKey \in DOMAIN processEnv /\ cased(processEnv[e.envKey]))
             => Expected(processEnv[e.envKey], OptionOf(calls[n].returned, e))
    /\ calls[n].op = "getSettings" =>
         /\ \A name \in SettingVariables :
              (EnvName(name) \in DOMAIN processEnv /\ cased(processEnv[EnvName(name)]))
                => Expected(processEnv[EnvName(name)], calls[n].returned[SettingOf(name)])
         /\ EnvName(LoaderVariable) \in DOMAIN processEnv
              => LoaderExpected(processEnv[EnvName(LoaderVariable)], calls[n].returned.loader)

AnyCasing(v) == TRUE
LowerCased(v) == ToLowerCase(v) = v

\* C8: every boolean-coerced variable decodes to true from any casing of true, t,
\* 1, yes, y and to false from any casing of false, f, 0, no, n and the empty
\* string; MIKRO_ORM_CLI_LOADER alone passes a string of neither set through
\* unchanged, a truthy one becoming 'auto' and a falsy one false.
C8_CaseInsensitiveDecoding == Decoding(AnyCasing)

\* The same decoding, of the values written in lower case.
C8_LowerCaseDecoding == Decoding(LowerCased)

-----------------------------------------------------------------------------
(* checkPackageVersion, called on a package.json, the installed packages and
   the environment: SpecVersion. *)

Scoped(name) == <<"@mikro-orm/", name>>
CoreVersion == S("6.0.0")
OtherVersion == S("5.9.0")
\* the packages a package.json may list, and where
Listable == <<CorePackage, Scoped("mysql"), Scoped("cli"), Scoped("nestjs"), S("lodash")>>
Listed(where, section) == SelectSeq(Listable, LAMBDA d : where[d] = section)
VersionManifests ==
  {[NoManifest EXCEPT !.dependencies = Listed(where, "dependencies"),
                      !.devDependencies = Listed(where, "devDependencies")] :
     where \in [{Listable[i] : i \in DOMAIN Listable} -> {"dependencies", "devDependencies", "none"}]}
\* the version of each installed package; no entry for a package whose
\* package.json cannot be required
Installations ==
  {[d \in {CorePackage, S("lodash")} \cup DOMAIN versions |->
      IF d = CorePackage THEN JStr(CoreVersion)
      ELSE IF d = S("lodash") THEN JStr(OtherVersion)
      ELSE versions[d]] :
     versions \in UNION {[ds -> {JStr(CoreVersion), JStr(OtherVersion)}] :
                           ds \in SUBSET {Scoped("mysql"), Scoped("cli"), Scoped("nestjs")}}}
BypassChoices == {EmptyMap} \cup
  {[k \in {EnvName("ALLOW_VERSION_MISMATCH")} |-> v] : v \in {<<>>, <<"1">>, False}}

InitVersion ==
  /\ processEnv \in BypassChoices
  /\ manifest \in VersionManifests
  /\ fs = {}
  /\ runtime = Runtime(NoArgv)
  /\ installed \in Installations
  /\ InitCall

CheckPackageVersion ==
  Call("checkPackageVersion", checkPackageVersion(processEnv, manifest, installed, runtime))

NextVersion == CheckPackageVersion

SpecVersion == InitVersion /\ [][NextVersion]_vars

BypassName == EnvName("ALLOW_VERSION_MISMATCH")
ListedPackages ==
  {manifest.dependencies[i] : i \in DOMAIN manifest.dependencies}
    \cup {manifest.devDependencies[i] : i \in DOMAIN manifest.devDependencies}
\* a listed @mikro-orm/* package, not core and no exception, whose version is
\* determinable and is not the version of core
Mismatched ==
  {d \in ListedPackages :
     /\ Head(d) = "@mikro-orm/"
     /\ d /= <<"@mikro-orm/", "core">>
     /\ Tail(d) \notin {<<"nestjs">>, <<"sql-highlighter">>, <<"mongo-highlighter">>}
     /\ d \in DOMAIN installed
     /\ installed[d] /= JStr(runtime.coreVersion)}
VersionCalls == {n \in DOMAIN calls : calls[n].op = "checkPackageVersion"}
FailsOnMismatch(n) ==
  IF Mismatched /= {}
  THEN /\ ~calls[n].returned.ok
       /\ calls[n].returned.kind = "VersionMismatch"
       /\ calls[n].returned.detail.package \in Mismatched
  ELSE calls[n].returned = Returned(runtime.coreVersion)

\* C9 as claimed: with the bypass flag absent, checkPackageVersion fails iff a
\* listed @mikro-orm/* package, not core and no exception, has a determinable
\* version that is not the version of core; otherwise, and always when the flag is
\* present, it returns the core version.
C9_AsClaimed ==
  \A n \in VersionCalls :
    IF BypassName \in DOMAIN processEnv
    THEN calls[n].returned = Returned(runtime.coreVersion)
    ELSE FailsOnMismatch(n)

\* C9 as amended: with the bypass flag absent or empty, checkPackageVersion fails
\* iff a listed @mikro-orm/* package, not core and no exception, has a
\* determinable version that is not the version of core; otherwise, and always
\* when the flag is set to a string that is not empty, it returns the core version.
C9_VersionCheck ==
  \A n \in VersionCalls :
    IF BypassName \in DOMAIN processEnv /\ processEnv[BypassName] /= <<>>
    THEN calls[n].returned = Returned(runtime.coreVersion)
    ELSE FailsOnMismatch(n)

C9_Witness ==
  /\ VersionCalls /= {}
  /\ BypassName \in DOMAIN processEnv
  /\ processEnv[BypassName] = <<>>
  /\ Mismatched /= {}
  /\ \E d \in ListedPackages : Head(d) = "@mikro-orm/" /\ d \notin DOMAIN installed
  /\ ~calls[1].returned.ok

-----------------------------------------------------------------------------
(* registerDotenv, called again and again on a process environment, each call
   reading a dotenv file: SpecDotenv. Each call appends the environment it
   found and the variables of the file to calls. *)

UserValue == S("user")
DotenvValue == S("dotenv")
LowerCaseName == <<"mikro_orm_", "HOST">>
ForeignName == <<"OTHER_", "HOST">>
\* the process environment before the first call: a variable may be set to ''
UserEnvs ==
  {EnvOf([HOST |-> h, PORT |-> p]) : h \in {Unset, <<>>, UserValue}, p \in {Unset, <<>>, UserValue}}
    \cup {[k \in {ForeignName} |-> UserValue]}
\* the variables dotenv.config parses out of a file
DotenvFiles ==
  {EmptyMap,
   [k \in {EnvName("HOST")} |-> DotenvValue],
   [k \in {EnvName("HOST"), EnvName("PORT")} |-> DotenvValue],
   [k \in {EnvName("PORT"), ForeignName} |-> <<>>],
   [k \in {EnvName("DEBUG"), LowerCaseName, ForeignName} |-> DotenvValue]}

InitDotenv ==
  /\ processEnv \in UserEnvs
  /\ manifest = NoManifest
  /\ fs = {}
  /\ runtime = Runtime(NoArgv)
  /\ installed = EmptyMap
  /\ InitCall

RegisterDotenv(dotenvVars) ==
  /\ Len(calls) < MaxCalls
  /\ processEnv' = registerDotenv(processEnv, dotenvVars)
  /\ calls' = Append(calls, [op |-> "registerDotenv",
                             returned |-> [before |-> processEnv, dotenv |-> dotenvVars]])
  /\ UNCHANGED <<manifest, fs, runtime, installed, callVars, logVars>>

NextDotenv == \E dotenvVars \in DotenvFiles : RegisterDotenv(dotenvVars)

SpecDotenv == InitDotenv /\ [][NextDotenv]_vars

DotenvCalls == {n \in DOMAIN calls : calls[n].op = "registerDotenv"}
\* the environment the n-th call left
After(n) == IF n = Len(calls) THEN processEnv ELSE calls[n + 1].returned.before
HasPrefix(name) == Head(name) = "MIKRO_ORM_"

\* C12: registerDotenv only adds variables that are absent: after any sequence of
\* calls every variable that was set, one set to the empty string included, has
\* the value it had, and every variable added has a name that starts with
\* MIKRO_ORM_ and the value of a dotenv file.
C12_OnlyAddsAbsent ==
  \A n \in DotenvCalls :
    LET before == calls[n].returned.before
        dotenv == calls[n].returned.dotenv
        first == calls[1].returned.before
    IN /\ \A k \in DOMAIN before : k \in DOMAIN After(n) /\ After(n)[k] = before[k]
       /\ \A k \in DOMAIN first : k \in DOMAIN processEnv /\ processEnv[k] = first[k]
       /\ \A k \in DOMAIN After(n) \ DOMAIN before :
            HasPrefix(k) /\ k \in DOMAIN dotenv /\ After(n)[k] = dotenv[k]
       /\ \A k \in DOMAIN dotenv : (HasPrefix(k) /\ k \notin DOMAIN before) => k \in DOMAIN After(n)

C12_Witness ==
  /\ Len(calls) = 2
  /\ EnvName("HOST") \in DOMAIN calls[1].returned.before
  /\ calls[1].returned.before[EnvName("HOST")] = <<>>
  /\ EnvName("HOST") \in DOMAIN calls[1].returned.dotenv
  /\ EnvName("PORT") \notin DOMAIN calls[1].returned.before
  /\ EnvName("PORT") \in DOMAIN processEnv
  /\ ForeignName \in DOMAIN calls[2].returned.dotenv
  /\ ForeignName \notin DOMAIN processEnv

=============================================================================
